---- MODULE Spec2Model ----
(***************************************************************************)
(* A model of heady (src/heady): the visibility tree builder               *)
(* (tree.py build_tree), the hide-list store (config.py) and the commands  *)
(* of main.py that hide, unhide and restack commits.                       *)
(*                                                                         *)
(* A commit is a number (its SHA); a commit is created after its parents,  *)
(* so a parent's number is lower than its child's.  The repository is the  *)
(* sequence `commits`: commits[c] is commit c.                             *)
(***************************************************************************)
EXTENDS Integers, Sequences, FiniteSets, TLC

VARIABLES
    commits,     \* the object store: commits[c] = [parents, message, time]
    trunk_refs,  \* HeadyRepo.trunk_refs, each resolved to its commit
    heads,       \* the commits of the local branch heads (r.repo.heads)
    HEAD,        \* r.repo.head.commit
    reflog,      \* r.repo.head.log(), oldest entry first
    stale,       \* how many of the oldest reflog entries are older than max_age
    hide_list,   \* the hide-list file, as get_hide_list reads it
    dirty,       \* r.repo.is_dirty()
    last         \* the last command run: its arguments, snapshot and outcome

vars == <<commits, trunk_refs, heads, HEAD, reflog, stale, hide_list, dirty, last>>

(***************************************************************************)
(* Bounds of the model.                                                    *)
(***************************************************************************)
NumInit == 5        \* commits in the repository before the first command
MaxNew == 3         \* commits the commands of one behaviour may create
MaxTrunkRefs == 2   \* configured trunk references
MaxInitLog == 2     \* entries of the reflog before the first command
MaxMoveCmds == 1    \* restack commands run in one behaviour
MaxHideCmds == 2    \* hide and unhide commands run in one behaviour
MaxRevs == 2        \* revisions given to one hide or unhide command
MaxAmends == 2      \* amends the user makes before a fixup
MaxFixupCmds == 1   \* fixup and goto commands run in one behaviour
MaxLoopLog == 3         \* reflog entries before a fixup of repeated amends

(***************************************************************************)
(* Commit messages.  A message is a sequence of lines; a line is           *)
(* [key, val]: key is "upstream:" when the line starts with that token     *)
(* (else another word) and val is the rest of the line, a sequence of      *)
(* characters.                                                             *)
(***************************************************************************)
SP == " "

RECURSIVE LStrip(_)
LStrip(s) == IF s # <<>> /\ Head(s) = SP THEN LStrip(Tail(s)) ELSE s

RECURSIVE RStrip(_)
RStrip(s) ==
    IF s # <<>> /\ s[Len(s)] = SP THEN RStrip(SubSeq(s, 1, Len(s) - 1)) ELSE s

Strip(s) == RStrip(LStrip(s))

get_upstream_names(c) ==
    { Strip(commits[c].message[i].val) :
        i \in { j \in DOMAIN commits[c].message :
                    commits[c].message[j].key = "upstream:" } }

(***************************************************************************)
(* The commit graph, as the VCS answers the queries of the code.           *)
(***************************************************************************)
Shas == DOMAIN commits

ParentSet(c) == { commits[c].parents[i] : i \in DOMAIN commits[c].parents }

RECURSIVE Ancestors(_)
Ancestors(c) == {c} \cup UNION { Ancestors(p) : p \in ParentSet(c) }

Reach(S) == UNION { Ancestors(c) : c \in S }

\* iter_commits("<descendent>..<ancestor>", max_count=1) is empty
is_ancestor(a, d) == Ancestors(a) \ Ancestors(d) = {}

TrunkShas == { trunk_refs[i] : i \in DOMAIN trunk_refs }

is_in_trunk(c) == \E i \in DOMAIN trunk_refs : is_ancestor(c, trunk_refs[i])

\* git merge-base exits with status 1 when the two share no ancestor
merge_base_fails(a, b) == Ancestors(a) \cap Ancestors(b) = {}

\* mutant: only the first trunk reference is excluded
rev_list_first_trunk_only(tips, excl) == Reach(tips) \ Ancestors(trunk_refs[1])

rev_list(tips, excl) == Reach(tips) \ Reach(excl)

(***************************************************************************)
(* Small helpers for dictionaries and lists.                               *)
(***************************************************************************)
EmptyMap == [x \in {} |-> 0]

MapPut(m, k, v) == [x \in DOMAIN m \cup {k} |-> IF x = k THEN v ELSE m[x]]

Range(s) == { s[i] : i \in DOMAIN s }

RECURSIVE Perms(_)
Perms(S) ==
    IF S = {} THEN { <<>> }
    ELSE UNION { { <<x>> \o p : p \in Perms(S \ {x}) } : x \in S }

RECURSIVE SelectIn(_, _)
SelectIn(s, S) ==
    IF s = <<>> THEN <<>>
    ELSE (IF Head(s) \in S THEN <<Head(s)>> ELSE <<>>) \o SelectIn(Tail(s), S)

RECURSIVE SelectOut(_, _)
SelectOut(s, S) ==
    IF s = <<>> THEN <<>>
    ELSE (IF Head(s) \in S THEN <<>> ELSE <<Head(s)>>) \o SelectOut(Tail(s), S)

\* the position of the first element of s with the greatest commit time
FirstNewest(s) ==
    CHOOSE i \in DOMAIN s :
        /\ \A j \in DOMAIN s : commits[s[j]].time <= commits[s[i]].time
        /\ \A j \in 1..(i - 1) : commits[s[j]].time < commits[s[i]].time

\* mutant: the nodes stay in the order the dictionary got them
KeepInsertionOrder(s) == s

\* sorted(..., key=committed_datetime, reverse=True): newest first, and
\* commits of equal time keep the order they had
RECURSIVE SortNewestFirst(_)
SortNewestFirst(s) ==
    IF s = <<>> THEN <<>>
    ELSE LET i == FirstNewest(s)
         IN <<s[i]>> \o SortNewestFirst(SubSeq(s, 1, i - 1) \o SubSeq(s, i + 1, Len(s)))

\* the order in which the VCS lists a set of commits: newest first
RECURSIVE LogOrder(_)
LogOrder(S) ==
    IF S = {} THEN <<>>
    ELSE LET c == CHOOSE x \in S :
                    \A y \in S : \/ commits[y].time < commits[x].time
                                 \/ (commits[y].time = commits[x].time /\ y <= x)
         IN <<c>> \o LogOrder(S \ {c})

(***************************************************************************)
(* build_tree, step 1: the walk of the reflog, newest entry first.         *)
(* Entry i is older than max_age exactly when i <= stale.                  *)
(***************************************************************************)
MsgAmend == "commit (amend):"
MsgMove == "heady move:"
MsgVisit == "heady visit:"
MsgPick == "cherry-pick:"
MsgReset == "reset:"
MsgCheckout == "checkout:"

NoScan == [tips |-> {}, amended |-> {}, amend_source_map |-> EmptyMap,
           moved |-> {}, move_source_map |-> EmptyMap]

NoteAmend(acc, item) ==
    IF item.msg = MsgAmend
    THEN [acc EXCEPT !.amended = @ \cup {item.old},
                     !.amend_source_map = MapPut(@, item.new, item.old)]
    ELSE acc

NoteMove(acc, item) ==
    IF item.msg = MsgMove
    THEN [acc EXCEPT !.moved = @ \cup {item.old},
                     !.move_source_map = MapPut(@, item.new, item.old)]
    ELSE acc

\* mutant: the hide-list is not consulted
TipAllowedIgnoringHideList(acc, sha) ==
    /\ sha \notin acc.amended
    /\ sha \notin acc.moved

TipAllowed(acc, sha) ==
    /\ sha \notin hide_list
    /\ sha \notin acc.amended
    /\ sha \notin acc.moved

RECURSIVE ScanReflog(_, _)
ScanReflog(i, acc) ==
    IF i = 0 THEN acc
    ELSE LET item == reflog[i]
             noted == NoteMove(NoteAmend(acc, item), item)
         IN IF i <= stale THEN noted
            ELSE ScanReflog(i - 1,
                     IF TipAllowed(noted, item.new)
                     THEN [noted EXCEPT !.tips = @ \cup {item.new}]
                     ELSE noted)

ReflogScan == ScanReflog(Len(reflog), NoScan)

(***************************************************************************)
(* Steps 2 to 4: branch heads, the merge-base filter, the range query.     *)
(***************************************************************************)
BranchTips(tips) == tips \cup heads

TipsToExclude(tips) ==
    { t \in tips : \E i \in DOMAIN trunk_refs : merge_base_fails(t, trunk_refs[i]) }

TipShas == LET t == BranchTips(ReflogScan.tips) IN t \ TipsToExclude(t)

BranchCommitShas == rev_list(TipShas, TrunkShas)

(***************************************************************************)
(* make_node.  HeadyRepo (repo.py) has the fields trunk_refs and repo      *)
(* only, so reading r.remote for a commit that carries an upstream trailer *)
(* raises AttributeError, which the except clause does not catch.          *)
(***************************************************************************)
\* mutant: the moved SHAs are not consulted
IsHiddenShaWithoutMoves(scan, c) ==
    \/ c \in hide_list
    \/ c \in scan.amended

IsHiddenSha(scan, c) ==
    \/ c \in hide_list
    \/ c \in scan.moved
    \/ c \in scan.amended

MakeNodeRaises(c) == get_upstream_names(c) # {}

(***************************************************************************)
(* Step 6: linking, in the order `ord` of the commit_nodes dictionary.     *)
(***************************************************************************)
\* mutant: a trunk node made while linking does not get the child
LinkStepNewParentEmpty(acc, c, bcs) ==
    IF acc.err # "" THEN acc
    ELSE IF commits[c].parents = <<>> THEN [acc EXCEPT !.err = "IndexError"]
    ELSE LET p == commits[c].parents[1]
         IN IF p \in bcs
            THEN [acc EXCEPT !.children[p] = Append(@, c)]
            ELSE IF p \in Range(acc.trunk)
            THEN [acc EXCEPT !.children[p] = Append(@, c)]
            ELSE IF MakeNodeRaises(p) THEN [acc EXCEPT !.err = "AttributeError"]
            ELSE [acc EXCEPT !.trunk = Append(@, p)]

LinkStep(acc, c, bcs) ==
    IF acc.err # "" THEN acc
    ELSE IF commits[c].parents = <<>> THEN [acc EXCEPT !.err = "IndexError"]
    ELSE LET p == commits[c].parents[1]
         IN IF p \in bcs
            THEN [acc EXCEPT !.children[p] = Append(@, c)]
            ELSE IF p \in Range(acc.trunk)
            THEN [acc EXCEPT !.children[p] = Append(@, c)]
            ELSE IF MakeNodeRaises(p) THEN [acc EXCEPT !.err = "AttributeError"]
            ELSE [acc EXCEPT !.trunk = Append(@, p),
                             !.children[p] = Append(@, c)]

RECURSIVE Link(_, _, _)
Link(ord, acc, bcs) ==
    IF ord = <<>> THEN acc ELSE Link(Tail(ord), LinkStep(acc, Head(ord), bcs), bcs)

\* the keys of trunk_nodes after the loop over r.trunk_refs, in insertion order
RECURSIVE Dedup(_)
Dedup(s) ==
    IF s = <<>> THEN <<>>
    ELSE LET d == Dedup(SubSeq(s, 1, Len(s) - 1))
         IN IF s[Len(s)] \in Range(d) THEN d ELSE Append(d, s[Len(s)])

(***************************************************************************)
(* collect_merged_upstreams: the trunk commits after the first parent of   *)
(* the oldest trunk node, each visited once, and the upstream names they   *)
(* carry.                                                                  *)
(***************************************************************************)
\* mutant: a commit already seen through an earlier trunk reference is visited again
RECURSIVE TrunkWalkRevisits(_, _, _)
TrunkWalkRevisits(i, boundary, visited) ==
    IF i > Len(trunk_refs) THEN visited
    ELSE TrunkWalkRevisits(i + 1, boundary,
             visited \o LogOrder(Ancestors(trunk_refs[i]) \ Ancestors(boundary)))

RECURSIVE TrunkWalk(_, _, _)
TrunkWalk(i, boundary, visited) ==
    IF i > Len(trunk_refs) THEN visited
    ELSE TrunkWalk(i + 1, boundary,
             visited \o SelectOut(LogOrder(Ancestors(trunk_refs[i]) \ Ancestors(boundary)),
                                  Range(visited)))

collect_merged_upstreams(oldest) ==
    LET visited == TrunkWalk(1, commits[oldest].parents[1], <<>>)
        names == UNION { get_upstream_names(c) : c \in Range(visited) }
    IN [n \in names |-> SelectIn(visited, { c \in Shas : n \in get_upstream_names(c) })]

MergedShas(c, merged) ==
    UNION { Range(merged[n]) : n \in get_upstream_names(c) \cap DOMAIN merged }

(***************************************************************************)
(* build_tree.  branch_commit_shas is a Python set of strings, so the      *)
(* order in which commit_nodes is filled, and with it the order of every   *)
(* children list, is one the run picks: `ord` is that order.               *)
(***************************************************************************)
NoChildren == [c \in Shas |-> <<>>]

FailedTree(err, scan, tips) ==
    [ok |-> FALSE, err |-> err, tip_shas |-> tips, commit_nodes |-> {},
     children |-> NoChildren, hidden |-> {},
     trunk_nodes |-> <<>>, amend_source_map |-> scan.amend_source_map,
     visible_upstreams |-> EmptyMap, merged_upstream_shas |-> EmptyMap]

build_tree(ord) ==
    LET scan == ReflogScan
        tips == TipShas
        bcs == Range(ord)
        refnodes == Dedup(trunk_refs)
        linked == Link(ord, [children |-> NoChildren, trunk |-> refnodes, err |-> ""], bcs)
        ordered == SortNewestFirst(linked.trunk)
        oldest == ordered[Len(ordered)]
        calls == ord \o trunk_refs \o SubSeq(linked.trunk, Len(refnodes) + 1, Len(linked.trunk))
        names == UNION { get_upstream_names(c) : c \in Range(calls) }
    IN IF \E c \in bcs \cup TrunkShas : MakeNodeRaises(c)
       THEN FailedTree("AttributeError", scan, tips)
       ELSE IF linked.err # "" THEN FailedTree(linked.err, scan, tips)
       ELSE IF commits[oldest].parents = <<>> THEN FailedTree("IndexError", scan, tips)
       ELSE LET merged == collect_merged_upstreams(oldest)
            IN [ok |-> TRUE, err |-> "", tip_shas |-> tips, commit_nodes |-> bcs,
                children |-> linked.children,
                hidden |-> { c \in bcs \cup Range(ordered) : IsHiddenSha(scan, c) },
                trunk_nodes |-> ordered,
                amend_source_map |-> scan.amend_source_map,
                visible_upstreams |->
                    [n \in names |->
                        SelectIn(calls, { c \in Shas : /\ n \in get_upstream_names(c)
                                                       /\ ~IsHiddenSha(scan, c) })],
                merged_upstream_shas |-> [c \in bcs |-> MergedShas(c, merged)]]

\* The dictionary orders tried: the commits with no parent first, then the
\* children of each parent in turn, in every order of each group of
\* siblings.  Every way the children lists of a tree can come out is the
\* outcome of one of them.
KidsOf(p, bcs) ==
    { c \in bcs : commits[c].parents # <<>> /\ commits[c].parents[1] = p }

RECURSIVE GroupOrders(_, _)
GroupOrders(ps, bcs) ==
    IF ps = <<>> THEN { <<>> }
    ELSE { o \o rest : o \in Perms(KidsOf(Head(ps), bcs)), rest \in GroupOrders(Tail(ps), bcs) }

RECURSIVE Ascending(_)
Ascending(S) ==
    IF S = {} THEN <<>>
    ELSE LET m == CHOOSE x \in S : \A y \in S : x <= y IN <<m>> \o Ascending(S \ {m})

Orders(bcs) ==
    LET roots == { c \in bcs : commits[c].parents = <<>> }
        ps == { commits[c].parents[1] : c \in bcs \ roots }
    IN { r \o o : r \in Perms(roots), o \in GroupOrders(Ascending(ps), bcs) }

\* every tree a run of build_tree can return in the current state
Trees == { build_tree(ord) : ord \in Orders(BranchCommitShas) }

(***************************************************************************)
(* collect_subtree_shas: dest is returned instead of changed in place.     *)
(***************************************************************************)
RECURSIVE collect_subtree_shas(_, _, _)
RECURSIVE CollectChildren(_, _, _)
\* mutant: the children of the node are not visited
collect_root_only(t, node, dest) == dest \cup {node}

collect_subtree_shas(t, node, dest) ==
    IF node \in dest THEN dest
    ELSE CollectChildren(t, t.children[node], dest \cup {node})

CollectChildren(t, kids, dest) ==
    IF kids = <<>> THEN dest
    ELSE CollectChildren(t, Tail(kids), collect_subtree_shas(t, Head(kids), dest))

(***************************************************************************)
(* The steps of a command that change the repository.  A command works on  *)
(* w = [commits, HEAD, reflog, dirty, raised, picks, moves]: raised is ""  *)
(* until a step raises, and every later step is then skipped.  fail says    *)
(* which cherry-pick the VCS refuses (0: none) and whether the refusal      *)
(* leaves conflicts in the working tree.                                    *)
(***************************************************************************)
Work ==
    [commits |-> commits, HEAD |-> HEAD, reflog |-> reflog, dirty |-> dirty,
     raised |-> "", picks |-> 0, moves |-> <<>>]

Entry(old, new, msg) == [old |-> old, new |-> new, msg |-> msg]

\* mutant: the working tree is not asked whether it is dirty
visit_commit_unguarded(w, dest) ==
    IF w.raised # "" THEN w
    ELSE [w EXCEPT !.HEAD = dest,
                   !.reflog = @ \o << Entry(w.HEAD, dest, MsgVisit),
                                      Entry(dest, dest, MsgReset) >>]

\* head.set_reference(dest, logmsg), then head.reset(index, working_tree)
_visit_commit(w, dest) ==
    IF w.raised # "" THEN w
    ELSE IF w.dirty THEN [w EXCEPT !.raised = "dirty"]
    ELSE [w EXCEPT !.HEAD = dest,
                   !.reflog = @ \o << Entry(w.HEAD, dest, MsgVisit),
                                      Entry(dest, dest, MsgReset) >>]

\* git cherry-pick: a new commit on HEAD that carries the message of src
cherry_pick(w, src, fail) ==
    IF w.raised # "" THEN w
    ELSE IF fail.at = w.picks + 1 \/ Len(w.commits[src].parents) > 1
    THEN [w EXCEPT !.raised = "cherry-pick", !.picks = @ + 1,
                   !.dirty = @ \/ fail.conflict]
    ELSE LET new == Len(w.commits) + 1
         IN [w EXCEPT !.commits = Append(@, [parents |-> <<w.HEAD>>,
                                            message |-> w.commits[src].message,
                                            time |-> new]),
                      !.HEAD = new,
                      !.picks = @ + 1,
                      !.reflog = Append(@, Entry(w.HEAD, new, MsgPick))]

\* head.set_reference(source_sha) writes no reflog entry (no logmsg); the
\* second set_reference logs the move from source_sha to the new commit
RecordMove(w, src) ==
    IF w.raised # "" THEN w
    ELSE [w EXCEPT !.reflog = Append(@, Entry(src, w.HEAD, MsgMove)),
                   !.moves = Append(@, <<src, w.HEAD>>)]

RECURSIVE _move_commits_recursive(_, _, _, _)
RECURSIVE MoveEachChild(_, _, _, _, _)
_move_children_to_head(w, t, source_parent, fail) ==
    MoveEachChild(w, t, t.children[source_parent], w.HEAD, fail)

\* mutant: the children of the re-applied commit are left where they were
move_commits_recursive_alone(w, t, source, fail) ==
    RecordMove(cherry_pick(w, source, fail), source)

\* mutant: a refused cherry-pick puts the repository back as the command found it
move_commits_recursive_rollback(w, t, source, fail) ==
    LET picked == RecordMove(cherry_pick(w, source, fail), source)
    IN IF picked.raised # ""
       THEN [picked EXCEPT !.commits = commits, !.HEAD = HEAD, !.reflog = reflog]
       ELSE _move_children_to_head(picked, t, source, fail)

_move_commits_recursive(w, t, source, fail) ==
    LET picked == RecordMove(cherry_pick(w, source, fail), source)
    IN IF picked.raised # "" THEN picked
       ELSE _move_children_to_head(picked, t, source, fail)

\* mutant: the working tree is not put back on the base between siblings
RECURSIVE MoveEachChildChained(_, _, _, _, _)
MoveEachChildChained(w, t, kids, base_commit, fail) ==
    IF kids = <<>> \/ w.raised # "" THEN w
    ELSE MoveEachChildChained(_move_commits_recursive(w, t, Head(kids), fail),
                              t, Tail(kids), base_commit, fail)

MoveEachChild(w, t, kids, base_commit, fail) ==
    IF kids = <<>> \/ w.raised # "" THEN w
    ELSE MoveEachChild(
             _visit_commit(_move_commits_recursive(w, t, Head(kids), fail), base_commit),
             t, Tail(kids), base_commit, fail)

\* git commit --amend with a new message
amend_commit(w, message) ==
    IF w.raised # "" THEN w
    ELSE LET new == Len(w.commits) + 1
         IN [w EXCEPT !.commits = Append(@, [parents |-> w.commits[w.HEAD].parents,
                                            message |-> message,
                                            time |-> new]),
                      !.HEAD = new,
                      !.reflog = Append(@, Entry(w.HEAD, new, MsgAmend))]

(***************************************************************************)
(* The commands of main.py.  Each takes the tree `t` that its build_tree   *)
(* call returns and gives the work state it ends in.                       *)
(***************************************************************************)
Raise(err) == [Work EXCEPT !.raised = err]

NoTree == FailedTree("not built", NoScan, {})

\* mutant: the destination is checked out before the source is validated
move_commits_visit_first(source, dest, t, fail) ==
    LET visited == _visit_commit(Work, dest)
    IN IF is_in_trunk(source) THEN [visited EXCEPT !.raised = "in trunk"]
       ELSE IF ~t.ok THEN [visited EXCEPT !.raised = t.err]
       ELSE IF source \notin t.commit_nodes THEN [visited EXCEPT !.raised = "not visible"]
       ELSE _move_commits_recursive(visited, t, source, fail)

move_commits(source, dest, t, fail) ==
    IF is_in_trunk(source) THEN Raise("in trunk")
    ELSE IF ~t.ok THEN Raise(t.err)
    ELSE IF source \notin t.commit_nodes THEN Raise("not visible")
    ELSE _move_commits_recursive(_visit_commit(Work, dest), t, source, fail)

\* mutant: the check against HEAD is left out
RECURSIVE HideRootErrorTrunkOnly(_)
HideRootErrorTrunkOnly(revs) ==
    IF revs = <<>> THEN ""
    ELSE IF is_in_trunk(Head(revs)) THEN "in trunk"
    ELSE HideRootErrorTrunkOnly(Tail(revs))

\* the first check of hide_subtrees that fails, in the order of the revs
RECURSIVE HideRootError(_)
HideRootError(revs) ==
    IF revs = <<>> THEN ""
    ELSE IF is_in_trunk(Head(revs)) THEN "in trunk"
    ELSE IF is_ancestor(Head(revs), HEAD) THEN "hides HEAD"
    ELSE HideRootError(Tail(revs))

RECURSIVE ShasToHide(_, _, _)
ShasToHide(t, roots, dest) ==
    IF roots = <<>> THEN dest
    ELSE ShasToHide(t, Tail(roots),
             IF Head(roots) \notin t.commit_nodes THEN dest
             ELSE collect_subtree_shas(t, Head(roots), dest))

\* mutant: the file is opened for writing, as replace_hide_list does
replace_hide_list_with(shas) == shas

append_to_hide_list(shas) == hide_list \cup shas

\* gives [err, hide_list]
hide_subtrees(revs, t) ==
    IF HideRootError(revs) # "" THEN [err |-> HideRootError(revs), hide_list |-> hide_list]
    ELSE IF ~t.ok THEN [err |-> t.err, hide_list |-> hide_list]
    ELSE LET shas_to_hide == ShasToHide(t, revs, {})
             nodes_to_remove == shas_to_hide \ hide_list
         IN [err |-> "", hide_list |-> append_to_hide_list(nodes_to_remove)]

RECURSIVE unhide_revs(_, _)
unhide_revs(revs, new_hide_list) ==
    IF revs = <<>> THEN new_hide_list
    ELSE unhide_revs(Tail(revs),
             IF Head(revs) \notin new_hide_list THEN new_hide_list
             ELSE new_hide_list \ {Head(revs)})

\* re.compile(r"^(?P<remote>.+?)/(?P<branch>.+)$").match: the positions of a
\* "/" that has a character before it and one after it
SlashAt(ref) == { i \in 2..(Len(ref) - 1) : ref[i] = "/" }

UpstreamRemote(ref) ==
    LET i == CHOOSE k \in SlashAt(ref) : \A j \in SlashAt(ref) : k <= j
    IN SubSeq(ref, 1, i - 1)

\* r.repo.remotes
Remotes == { <<"o">> }

UpstreamLine(ref) == [key |-> "upstream:", val |-> <<SP>> \o ref]

add_upstream(upstream_ref, rev, t, fail) ==
    IF ~t.ok THEN Raise(t.err)
    ELSE IF is_in_trunk(rev) THEN Raise("in trunk")
    ELSE IF rev \notin t.commit_nodes THEN Raise("not visible")
    ELSE IF SlashAt(upstream_ref) = {} THEN Raise("malformed upstream")
    ELSE IF UpstreamRemote(upstream_ref) \notin Remotes THEN Raise("remote not found")
    ELSE LET visited == _visit_commit(Work, rev)
             amended == amend_commit(visited,
                            Append(commits[rev].message, UpstreamLine(upstream_ref)))
             moved == _move_children_to_head(amended, t, rev, fail)
         IN _visit_commit(moved, amended.HEAD)

(***************************************************************************)
(* fixup_commit.  The walk along amend_source_map has no guard against a   *)
(* SHA it has met before: on such a map the loop never ends, which is      *)
(* `hang`.  amend_source_children_shas is a Python set, so the order in    *)
(* which the children are re-applied is one the run picks: `order`.        *)
(***************************************************************************)
RECURSIVE AmendChain(_, _, _)
AmendChain(t, sha, seen) ==
    IF sha \in seen THEN [hang |-> TRUE, kids |-> {}]
    ELSE LET visible_children_shas ==
                 IF sha \in t.commit_nodes
                 THEN { ch \in Range(t.children[sha]) : ch \notin t.hidden }
                 ELSE {}
         IN IF sha \notin DOMAIN t.amend_source_map
            THEN [hang |-> FALSE, kids |-> visible_children_shas]
            ELSE LET rest == AmendChain(t, t.amend_source_map[sha], seen \cup {sha})
                 IN [hang |-> rest.hang, kids |-> visible_children_shas \cup rest.kids]

\* the children fixup_commit collects: the walk starts at the amend source of HEAD
FixupWalk(t) ==
    IF ~t.ok \/ HEAD \notin DOMAIN t.amend_source_map THEN [hang |-> FALSE, kids |-> {}]
    ELSE AmendChain(t, t.amend_source_map[HEAD], {})

\* mutant: the working tree is not put back on the starting commit
RECURSIVE FixupEachChained(_, _, _, _, _)
FixupEachChained(w, t, kids, starting_head_commit, fail) ==
    IF kids = <<>> \/ w.raised # "" THEN w
    ELSE FixupEachChained(_move_commits_recursive(w, t, Head(kids), fail),
                          t, Tail(kids), starting_head_commit, fail)

RECURSIVE FixupEach(_, _, _, _, _)
FixupEach(w, t, kids, starting_head_commit, fail) ==
    IF kids = <<>> \/ w.raised # "" THEN w
    ELSE FixupEach(
             _move_commits_recursive(_visit_commit(w, starting_head_commit), t, Head(kids), fail),
             t, Tail(kids), starting_head_commit, fail)

fixup_commit(t, order, fail) ==
    IF ~t.ok THEN Raise(t.err)
    ELSE IF HEAD \notin DOMAIN t.amend_source_map THEN Work
    ELSE IF FixupWalk(t).hang THEN Raise("never returns")
    ELSE IF order = <<>> THEN Work
    ELSE _visit_commit(FixupEach(Work, t, order, HEAD, fail), HEAD)

(***************************************************************************)
(* goto_commit.  NoUpstream is the None of a command line without the      *)
(* upstream argument.                                                      *)
(***************************************************************************)
NoUpstream == <<>>

RECURSIVE GotoTip(_, _)
GotoTip(t, cur_node) ==
    IF t.children[cur_node] = <<>> THEN _visit_commit(Work, cur_node)
    ELSE IF Len(t.children[cur_node]) > 1 THEN Raise("more than 1 tip")
    ELSE GotoTip(t, t.children[cur_node][1])

goto_commit(command, upstream, t) ==
    IF ~t.ok THEN Raise(t.err)
    ELSE IF command = "upstream"
    THEN LET upstreams == IF upstream \in DOMAIN t.visible_upstreams
                          THEN t.visible_upstreams[upstream] ELSE <<>>
         IN IF upstream = NoUpstream THEN Raise("no upstream provided")
            ELSE IF upstreams = <<>> THEN Raise("no visible commits")
            ELSE IF Len(upstreams) > 1 THEN Raise("multiple visible commits")
            ELSE IF upstreams[1] \notin t.commit_nodes THEN Raise("KeyError")
            ELSE _visit_commit(Work, upstreams[1])
    ELSE IF upstream # NoUpstream THEN Raise("upstream not allowed")
    ELSE IF HEAD \notin t.commit_nodes THEN Raise("KeyError")
    ELSE IF command = "prev" THEN _visit_commit(Work, commits[HEAD].parents[1])
    ELSE IF command = "next"
    THEN IF Len(t.children[HEAD]) > 1 THEN Raise("more than 1 child")
         ELSE IF Len(t.children[HEAD]) = 0 THEN Raise("no child")
         ELSE _visit_commit(Work, t.children[HEAD][1])
    ELSE GotoTip(t, HEAD)

(***************************************************************************)
(* push_commits.  node.upstreams holds Upstream objects, one per upstream  *)
(* name of the commit, and _plan_push calls startswith on each: an         *)
(* Upstream has no such method, so a node with an upstream raises          *)
(* AttributeError.  The plan is the list of refspecs handed to git push.   *)
(***************************************************************************)
RECURSIVE PlanChildren(_, _, _, _)
RECURSIVE _plan_push(_, _, _)
_plan_push(remote, t, node) ==
    IF get_upstream_names(node) # {} THEN [err |-> "AttributeError", result |-> <<>>]
    ELSE PlanChildren(remote, t, t.children[node], [err |-> "", result |-> <<>>])

PlanChildren(remote, t, kids, acc) ==
    IF kids = <<>> \/ acc.err # "" THEN acc
    ELSE LET sub == _plan_push(remote, t, Head(kids))
         IN PlanChildren(remote, t, Tail(kids),
                [err |-> sub.err, result |-> acc.result \o sub.result])

NoPush == [pushed |-> FALSE, order |-> <<>>]

push_commits(remote, rev, t) ==
    IF ~t.ok THEN [raised |-> t.err, push |-> NoPush]
    ELSE IF rev \notin t.commit_nodes THEN [raised |-> "not in tree", push |-> NoPush]
    ELSE IF remote \notin Remotes THEN [raised |-> "remote not specified", push |-> NoPush]
    ELSE LET push_order == _plan_push(remote, t, rev)
         IN IF push_order.err # "" THEN [raised |-> push_order.err, push |-> NoPush]
            ELSE [raised |-> "", push |-> [pushed |-> TRUE, order |-> push_order.result]]

(***************************************************************************)
(* Actions: one per command.  `last` keeps what the command was given,     *)
(* the tree it worked on and the state it started from.                    *)
(***************************************************************************)
Pre ==
    [ncommits |-> Len(commits), HEAD |-> HEAD, reflog |-> reflog,
     hide_list |-> hide_list, dirty |-> dirty]

Finish(cmd, args, t, w, hl, out) ==
    /\ Len(w.commits) <= NumInit + MaxNew
    /\ commits' = w.commits
    /\ HEAD' = w.HEAD
    /\ reflog' = w.reflog
    /\ dirty' = w.dirty
    /\ hide_list' = hl
    /\ last' = [n |-> last.n + 1, cmd |-> cmd, args |-> args,
                ok |-> w.raised = "", err |-> w.raised, tree |-> t,
                moves |-> w.moves, out |-> out, pre |-> Pre,
                prev |-> [cmd |-> last.cmd, args |-> last.args, ok |-> last.ok,
                          tree |-> last.tree, pre |-> last.pre]]
    /\ UNCHANGED <<trunk_refs, heads, stale>>

Fails ==
    { [at |-> 0, conflict |-> FALSE] }
        \cup { [at |-> a, conflict |-> c] : a \in 1..MaxNew, c \in BOOLEAN }


RevLists == UNION { [1..k -> Shas] : k \in 1..MaxRevs }

UpstreamRefs == { <<"o", "/", "f">>, <<"x", "/", "f">>, <<"o", "f">>, <<"/", "f">>, <<"o", "/">> }

TreeCmd ==
    \E t \in Trees : Finish("tree", <<>>, t, [Work EXCEPT !.raised = t.err], hide_list, {})

Hide ==
    \E t \in Trees : \E revs \in RevLists :
        LET r == hide_subtrees(revs, t)
        IN Finish("hide", revs, IF HideRootError(revs) # "" THEN NoTree ELSE t,
                  Raise(r.err), r.hide_list, {})

Unhide ==
    \E revs \in RevLists :
        Finish("unhide", revs, NoTree, Work, unhide_revs(revs, hide_list), {})

\* mutant: the sources of the moves are put on the hide-list as well
MoveAndHide ==
    \E t \in Trees : \E source \in Shas, dest \in Shas : \E fail \in Fails :
        LET w == move_commits(source, dest, t, fail)
        IN Finish("move", <<source, dest>>, IF is_in_trunk(source) THEN NoTree ELSE t,
                  w, hide_list \cup { w.moves[i][1] : i \in DOMAIN w.moves }, {})

Move ==
    \E t \in Trees : \E source \in Shas, dest \in Shas : \E fail \in Fails :
        Finish("move", <<source, dest>>, IF is_in_trunk(source) THEN NoTree ELSE t,
               move_commits(source, dest, t, fail), hide_list, {})

AddUpstream ==
    \E t \in Trees : \E upstream_ref \in UpstreamRefs, rev \in Shas : \E fail \in Fails :
        Finish("upstream", <<upstream_ref, rev>>, t,
               add_upstream(upstream_ref, rev, t, fail), hide_list, {})

\* the user edits a tracked file
Edit ==
    /\ ~dirty
    /\ dirty' = TRUE
    /\ UNCHANGED <<commits, trunk_refs, heads, HEAD, reflog, stale, hide_list, last>>

Fixup ==
    \E t \in Trees : \E order \in Perms(FixupWalk(t).kids) : \E fail \in Fails :
        Finish("fixup", order, t, fixup_commit(t, order, fail), hide_list, {})

GotoCommands == {"prev", "next", "tip", "upstream"}

Goto ==
    \E t \in Trees : \E command \in GotoCommands : \E upstream \in {NoUpstream, <<"o", "/", "f">>} :
        Finish("goto", <<command, upstream>>, t, goto_commit(command, upstream, t), hide_list, {})

PushRemotes == { <<"o">>, <<"x">> }

Push ==
    \E t \in Trees : \E remote \in PushRemotes, rev \in Shas :
        LET p == push_commits(remote, rev, t)
        IN Finish("push", <<remote, rev>>, t, Raise(p.raised), hide_list, p.push)

\* the user amends the checked-out commit with the VCS's own command
UserAmend ==
    /\ ~dirty
    /\ ~is_in_trunk(HEAD)
    /\ Cardinality({ i \in DOMAIN reflog : reflog[i].msg = MsgAmend }) < MaxAmends
    /\ LET w == amend_commit(Work, commits[HEAD].message)
       IN /\ commits' = w.commits
          /\ HEAD' = w.HEAD
          /\ reflog' = w.reflog
    /\ UNCHANGED <<trunk_refs, heads, stale, hide_list, dirty, last>>

(***************************************************************************)
(* Initial states: a repository with NumInit commits, as the user's own    *)
(* VCS commands left it.  Commit i was made at time i.                     *)
(***************************************************************************)
SubjectNames == <<"a", "b", "c", "d", "e", "f", "g", "h", "i", "j", "k", "l">>

Subject(i) == [key |-> "subject", val |-> <<SubjectNames[i]>>]

PlainMessage(i) == << Subject(i) >>

TrailerMessage(i) == << Subject(i), UpstreamLine(<<"o", "/", "f">>) >>

Commit(parents, message, time) ==
    [parents |-> parents, message |-> message, time |-> time]

\* the histories of n commits in which every commit but the first has one
\* parent, any older commit
RECURSIVE Histories(_)
Histories(n) ==
    IF n = 1 THEN { << Commit(<<>>, PlainMessage(1), 1) >> }
    ELSE { Append(h, Commit(<<p>>, PlainMessage(n), n)) :
             h \in Histories(n - 1), p \in 1..(n - 1) }

\* a reflog of checkouts: the user visited the commits of `visits` in turn
RECURSIVE CheckoutLog(_, _)
CheckoutLog(from, visits) ==
    IF visits = <<>> THEN <<>>
    ELSE << Entry(from, Head(visits), MsgCheckout) >> \o CheckoutLog(Head(visits), Tail(visits))

VisitLists == UNION { [1..k -> 1..NumInit] : k \in 0..MaxInitLog }

NoLast ==
    [n |-> 0, cmd |-> "none", args |-> <<>>, ok |-> TRUE, err |-> "",
     tree |-> FailedTree("not built", NoScan, {}), moves |-> <<>>, out |-> {},
     pre |-> Pre,
     prev |-> [cmd |-> "none", args |-> <<>>, ok |-> TRUE,
               tree |-> FailedTree("not built", NoScan, {}), pre |-> Pre]]

\* the same histories with one subject for every commit (the user's "wip")
SameSubject(h) == [i \in DOMAIN h |-> [h[i] EXCEPT !.message = PlainMessage(1)]]

\* the histories with a root, the trunk commit 2 on it, and a stack above
StackHistories == { h \in Histories(NumInit) : h[2].parents = <<1>> }

\* the commits of `with` carry an upstream trailer
WithTrailers(h, with) ==
    [i \in DOMAIN h |-> IF i \in with THEN [h[i] EXCEPT !.message = TrailerMessage(i)] ELSE h[i]]

\* commit 3 starts a history of its own
WithSecondRoot(h) == [h EXCEPT ![3].parents = <<>>]

Quiet ==
    /\ stale = 0
    /\ hide_list = {}
    /\ dirty = FALSE

\* restack commands: a stack on trunk commit 2, visited by checkouts
InitMove ==
    /\ commits \in StackHistories
    /\ trunk_refs = <<2>>
    /\ heads = {}
    /\ \E visits \in VisitLists :
           /\ reflog = CheckoutLog(1, visits)
           /\ HEAD = IF visits = <<>> THEN 1 ELSE visits[Len(visits)]
    /\ Quiet
    /\ last = NoLast

\* hide and unhide: a stack with branch heads and an earlier hide-list
InitHide ==
    /\ commits \in { h \in StackHistories : h[3].parents = <<2>> }
    /\ trunk_refs = <<2>>
    /\ heads \in { {}, {NumInit}, {NumInit - 1} }
    /\ \E visits \in { v \in VisitLists : v = <<>> \/ (v[1] >= 3 /\ (Len(v) = 1 \/ v[2] = 2)) } :
           /\ reflog = CheckoutLog(2, visits)
           /\ HEAD = IF visits = <<>> THEN 2 ELSE visits[Len(visits)]
    /\ stale = 0
    /\ hide_list \in { {}, {NumInit} }
    /\ dirty = FALSE
    /\ last = NoLast

\* trunk references and trailers: any trunk references, branch heads as tips
InitTrunk ==
    /\ \E h \in StackHistories : \E with \in { S \in SUBSET (1..NumInit) : Cardinality(S) <= 2 } :
           commits \in { WithTrailers(h, with), WithTrailers(WithSecondRoot(h), with) }
    /\ trunk_refs \in UNION { [1..k -> 1..3] : k \in 1..MaxTrunkRefs }
    /\ heads \in { S \in SUBSET (1..NumInit) : Cardinality(S) <= 2 }
    /\ reflog = <<>>
    /\ HEAD = 1
    /\ Quiet
    /\ last = NoLast

\* the entries the user's own amends and earlier moves leave in the reflog
LogEntries ==
    { Entry(o, n, MsgCheckout) : o \in {1}, n \in 1..NumInit }
        \cup { e \in { Entry(o, n, MsgAmend) : o \in 3..NumInit, n \in 3..NumInit } : e.old < e.new }
        \cup { e \in { Entry(o, n, MsgMove) : o \in 3..NumInit, n \in 3..NumInit } : e.old < e.new }

\* the reflog walk: sibling commits on trunk commit 2, any short reflog
InitScan ==
    /\ commits \in { SameSubject(h) : h \in { g \in StackHistories :
                                                 \A i \in 3..NumInit : g[i].parents = <<2>> } }
    /\ trunk_refs = <<2>>
    /\ heads \in { {}, {3}, {NumInit} }
    /\ reflog \in UNION { [1..k -> LogEntries] : k \in 0..MaxInitLog }
    /\ HEAD = IF reflog = <<>> THEN 2 ELSE reflog[Len(reflog)].new
    /\ stale \in 0..Len(reflog)
    /\ hide_list \in { {}, {3}, {NumInit} }
    /\ dirty = FALSE
    /\ last = NoLast

\* subtree collection: stacks reached through branch heads
InitCollect ==
    /\ commits \in StackHistories
    /\ trunk_refs = <<2>>
    /\ heads \in SUBSET (3..NumInit)
    /\ reflog = <<>>
    /\ HEAD = 2
    /\ Quiet
    /\ last = NoLast

\* a call of tree.collect_subtree_shas on a node of a tree, with any dest
Collect ==
    \E t \in Trees : \E node \in t.commit_nodes : \E dest \in SUBSET t.commit_nodes :
        /\ t.ok
        /\ Finish("collect", <<node, dest>>, t, Work, hide_list,
                  collect_subtree_shas(t, node, dest))

\* fixup and goto: a stack on trunk commit 2 that the user visited, and amends
InitFixup ==
    /\ commits \in StackHistories
    /\ trunk_refs = <<2>>
    /\ heads \in { {}, {NumInit - 1} }
    /\ \E visits \in VisitLists :
           /\ reflog = CheckoutLog(2, visits)
           /\ HEAD = IF visits = <<>> THEN 2 ELSE visits[Len(visits)]
    /\ stale = 0
    /\ hide_list \in { {}, {NumInit} }
    /\ dirty = FALSE
    /\ last = NoLast

NextFixup ==
    \/ last.n = 0 /\ (UserAmend \/ Edit)
    \/ last.n < MaxFixupCmds /\ (Fixup \/ Goto)

\* every command that checks out: one stack, visited and amended by the user
InitGuard ==
    /\ commits \in { h \in StackHistories : h[3].parents = <<2>> /\ h[4].parents = <<3>>
                                             /\ h[NumInit].parents[1] >= 3 }
    /\ trunk_refs = <<2>>
    /\ heads = {}
    /\ \E visits \in VisitLists :
           /\ reflog = CheckoutLog(2, visits)
           /\ HEAD = IF visits = <<>> THEN 2 ELSE visits[Len(visits)]
    /\ stale = 0
    /\ hide_list \in { {}, {NumInit} }
    /\ dirty = FALSE
    /\ last = NoLast

NextGuard ==
    \/ last.n = 0 /\ (UserAmend \/ Edit)
    \/ last.n < MaxFixupCmds /\ (Move \/ AddUpstream \/ Fixup \/ Goto)

\* the merge scan: any history, trailers of two upstream names on any commits,
\* trunk references anywhere
TwoTrailers(h, with, other) ==
    [i \in DOMAIN h |->
        [h[i] EXCEPT !.message =
            << Subject(i) >>
                \o (IF i \in with THEN << UpstreamLine(<<"o", "/", "f">>) >> ELSE <<>>)
                \o (IF i = other THEN << UpstreamLine(<<"o", "/", "g">>) >> ELSE <<>>)]]

InitMerged ==
    /\ \E h \in Histories(NumInit) :
           \E with \in { S \in SUBSET (1..NumInit) : Cardinality(S) <= 2 } :
               \E other \in 0..NumInit : commits = TwoTrailers(h, with, other)
    /\ trunk_refs \in UNION { [1..k -> 1..NumInit] : k \in 1..MaxTrunkRefs }
    /\ heads = {}
    /\ reflog = <<>>
    /\ HEAD = 1
    /\ Quiet
    /\ last = NoLast

\* a call of tree.collect_merged_upstreams with a commit of the trunk
MergeScan ==
    \E oldest \in { c \in Shas : is_in_trunk(c) } :
        IF commits[oldest].parents = <<>>
        THEN Finish("merged", <<oldest>>, NoTree, Raise("IndexError"), hide_list, EmptyMap)
        ELSE Finish("merged", <<oldest>>, NoTree, Work, hide_list,
                    collect_merged_upstreams(oldest))

NextMerged == last.n < 1 /\ MergeScan

\* the user marks a commit with an upstream, then asks for that upstream or
\* pushes
NextUpstream ==
    \/ last.n = 0 /\ (AddUpstream \/ Push)
    \/ last.n = 1 /\ (Goto \/ Push)

\* repeated amends: sibling commits on trunk commit 2 with one message, and a
\* reflog in which each entry starts where the one before it ended.  An amend
\* that changes nothing within the second of the commit gives the SHA it
\* started from, and one that restores an earlier content gives an earlier SHA.
AmendLogs ==
    { log \in UNION { [1..k -> { Entry(o, n, m) : o \in 2..NumInit, n \in 3..NumInit,
                                                  m \in {MsgCheckout, MsgAmend} }] :
                        k \in 0..MaxLoopLog } :
        /\ log # <<>> => (log[1].old = 2 /\ log[1].msg = MsgCheckout)
        /\ \A i \in 2..Len(log) : log[i].old = log[i - 1].new }

InitAmends ==
    /\ commits \in { SameSubject(h) : h \in { g \in StackHistories :
                                                 \A i \in 3..NumInit : g[i].parents = <<2>> } }
    /\ trunk_refs = <<2>>
    /\ heads \in { {}, {NumInit} }
    /\ reflog \in AmendLogs
    /\ HEAD = IF reflog = <<>> THEN 2 ELSE reflog[Len(reflog)].new
    /\ Quiet
    /\ last = NoLast

NextAmends == last.n < MaxFixupCmds /\ Fixup

NextMove == last.n < MaxMoveCmds /\ (Move \/ AddUpstream \/ Edit)

NextHide == last.n < MaxHideCmds /\ (Hide \/ Unhide)

NextTree == last.n < 1 /\ TreeCmd

NextCollect == last.n < 1 /\ Collect

SpecMove == InitMove /\ [][NextMove]_vars

SpecHide == InitHide /\ [][NextHide]_vars

SpecTree == (InitTrunk \/ InitScan) /\ [][NextTree]_vars

SpecCollect == InitCollect /\ [][NextCollect]_vars

SpecFixup == InitFixup /\ [][NextFixup]_vars

SpecGuard == InitGuard /\ [][NextGuard]_vars

SpecUpstream == InitGuard /\ [][NextUpstream]_vars

SpecAmends == InitAmends /\ [][NextAmends]_vars

SpecMerged == InitMerged /\ [][NextMerged]_vars

(***************************************************************************)
(* What the last command did, read from `last` and the repository.         *)
(***************************************************************************)
MovedOlds == { last.moves[i][1] : i \in DOMAIN last.moves }

NewOf(n) == { last.moves[i][2] : i \in { j \in DOMAIN last.moves : last.moves[j][1] = n } }

SnapshotKids(p) == IF p \in DOMAIN last.tree.children THEN Range(last.tree.children[p]) ELSE {}

NewEntries == { i \in DOMAIN reflog : i > Len(last.pre.reflog) }

Unchanged ==
    /\ HEAD = last.pre.HEAD
    /\ reflog = last.pre.reflog
    /\ hide_list = last.pre.hide_list
    /\ Len(commits) = last.pre.ncommits

(***************************************************************************)
(* C1.  In a restack, the children of a rewritten node that has two or     *)
(* more children in the snapshot are each cherry-picked while HEAD is the  *)
(* rewritten parent: every rewritten child has the rewritten parent as its *)
(* only parent, and no rewritten child is an ancestor of another.          *)
(***************************************************************************)
C1_SiblingsStaySiblings ==
    \A p \in MovedOlds :
        Cardinality(SnapshotKids(p)) >= 2 =>
            \A c \in SnapshotKids(p) \cap MovedOlds :
                \A nc \in NewOf(c) : \A np \in NewOf(p) :
                    /\ commits[nc].parents = <<np>>
                    /\ \E i \in NewEntries : reflog[i] = Entry(np, nc, MsgPick)
                    /\ \A d \in (SnapshotKids(p) \cap MovedOlds) \ {c} :
                           \A nd \in NewOf(d) : ~is_ancestor(nc, nd)

C1_Witness ==
    /\ last.cmd = "move"
    /\ last.ok
    /\ \E p \in MovedOlds :
           /\ Cardinality(SnapshotKids(p)) >= 2
           /\ SnapshotKids(p) \subseteq MovedOlds

(***************************************************************************)
(* C2.  After move_commits(S, D) completes, the reflog holds for every     *)
(* node n of S's snapshot subtree an entry "heady move:" from n to n's     *)
(* rewritten commit, and a following build_tree puts n in the moved set,   *)
(* does not take n as a tip, marks n hidden if n is still a node, and has  *)
(* the rewritten commits as visible nodes.                                 *)
(***************************************************************************)
MovedSubtree == collect_subtree_shas(last.tree, last.args[1], {})

\* the commits the command created that carry the message of n
Rewritten(n) ==
    { m \in Shas : m > last.pre.ncommits /\ commits[m].message = commits[n].message }

C2_MoveEntries ==
    \A n \in MovedSubtree :
        \E i \in NewEntries :
            /\ reflog[i].msg = MsgMove
            /\ reflog[i].old = n
            /\ reflog[i].new \in Rewritten(n)

C2_NextTree(t) ==
    /\ t.ok
    /\ \A n \in MovedSubtree :
           /\ n \in ReflogScan.moved
           /\ n \notin ReflogScan.tips
           /\ (n \in t.commit_nodes => n \in t.hidden)
           /\ \A m \in Rewritten(n) : m \in t.commit_nodes /\ m \notin t.hidden

C2_MoveIsRecognised ==
    (last.cmd = "move" /\ last.ok) => (C2_MoveEntries /\ \A t \in Trees : C2_NextTree(t))

(***************************************************************************)
(* C10.  move_commits and add_upstream validate before they change         *)
(* anything: when the source is an ancestor of a trunk reference or is no  *)
(* node of commit_nodes, or the upstream argument is not <remote>/<branch> *)
(* or names a remote that is not configured, the command raises and HEAD,  *)
(* the reflog, the hide-list and the set of commits are as before.         *)
(***************************************************************************)
Malformed(ref) == ~\E i \in DOMAIN ref : 1 < i /\ i < Len(ref) /\ ref[i] = "/"

UnknownRemote(ref) ==
    \E i \in DOMAIN ref :
        /\ 1 < i /\ i < Len(ref) /\ ref[i] = "/"
        /\ \A j \in 2..(i - 1) : ref[j] # "/"
        /\ SubSeq(ref, 1, i - 1) \notin Remotes

C10_Rejected ==
    \/ /\ last.cmd = "move"
       /\ \/ is_in_trunk(last.args[1])
          \/ last.args[1] \notin last.tree.commit_nodes
    \/ /\ last.cmd = "upstream"
       /\ \/ is_in_trunk(last.args[2])
          \/ last.args[2] \notin last.tree.commit_nodes
          \/ Malformed(last.args[1])
          \/ UnknownRemote(last.args[1])

C10_ValidateBeforeMutate == C10_Rejected => (~last.ok /\ Unchanged)

C10_Witness ==
    /\ last.cmd = "upstream"
    /\ last.err = "remote not found"
    /\ Len(reflog) > 0

(***************************************************************************)
(* The subtree of a node in a tree, from the commits themselves: the       *)
(* nodes whose chain of first parents passes through the node.             *)
(***************************************************************************)
RECURSIVE FirstParentChain(_)
FirstParentChain(c) ==
    {c} \cup (IF commits[c].parents = <<>> THEN {} ELSE FirstParentChain(commits[c].parents[1]))

SubtreeOf(t, n) == { m \in t.commit_nodes : n \in FirstParentChain(m) }

(***************************************************************************)
(* C4.  Hide is idempotent: a second hide_subtrees of the same revs, with  *)
(* no other command in between, leaves the hide-list as the first left it. *)
(***************************************************************************)
SecondHide ==
    /\ last.cmd = "hide"
    /\ last.prev.cmd = "hide"
    /\ last.prev.ok
    /\ last.prev.args = last.args

C4_HideIdempotent == SecondHide => hide_list = last.pre.hide_list

\* the second run finds a root still in the tree, through a branch head
C4_Witness ==
    /\ SecondHide
    /\ last.ok
    /\ last.pre.hide_list # last.prev.pre.hide_list
    /\ last.args[1] \in last.tree.commit_nodes

(***************************************************************************)
(* C5.  hide_subtrees([sha]) followed by unhide_revs([sha]), for a sha in  *)
(* the tree.  Original: the hide-list is again what it was before the      *)
(* hide.  Amended: it is (before \cup subtree of sha) \ {sha}, which is    *)
(* the list before the hide when sha was not on it and the descendants of  *)
(* sha in the tree all were.                                               *)
(***************************************************************************)
HideThenUnhide ==
    /\ last.cmd = "unhide"
    /\ last.prev.cmd = "hide"
    /\ last.prev.ok
    /\ last.prev.args = last.args
    /\ Len(last.args) = 1
    /\ last.args[1] \in last.prev.tree.commit_nodes

C5_Original == HideThenUnhide => hide_list = last.prev.pre.hide_list

C5_HideUnhide ==
    HideThenUnhide =>
        LET sha == last.args[1]
            before == last.prev.pre.hide_list
            subtree == SubtreeOf(last.prev.tree, sha)
        IN /\ hide_list = (before \cup subtree) \ {sha}
           /\ (sha \notin before /\ subtree \ {sha} \subseteq before) => hide_list = before

C5_Witness ==
    /\ HideThenUnhide
    /\ last.args[1] \notin last.prev.pre.hide_list
    /\ SubtreeOf(last.prev.tree, last.args[1]) # {last.args[1]}
    /\ SubtreeOf(last.prev.tree, last.args[1]) \ {last.args[1]} \subseteq last.prev.pre.hide_list
    /\ hide_list = last.prev.pre.hide_list

(***************************************************************************)
(* C6.  After hide_subtrees([A]) for a node A, a following build_tree has  *)
(* no node for A nor for a commit of A's subtree.  Original proviso: no    *)
(* tip that is not hidden is a descendant of A.  Amended: and no local     *)
(* branch head is A or a descendant of A.                                  *)
(***************************************************************************)
HidOne ==
    /\ last.cmd = "hide"
    /\ last.ok
    /\ Len(last.args) = 1
    /\ last.args[1] \in last.tree.commit_nodes

NoVisibleTipAbove(a) ==
    ~\E tip \in TipShas :
        /\ tip # a
        /\ a \in Ancestors(tip)
        /\ ~IsHiddenSha(ReflogScan, tip)

NoHeadAtOrAbove(a) == ~\E h \in heads : a \in Ancestors(h)

GoneFromTree(a) ==
    \A t \in Trees : t.ok /\ SubtreeOf(last.tree, a) \cap t.commit_nodes = {}

C6_Original == (HidOne /\ NoVisibleTipAbove(last.args[1])) => GoneFromTree(last.args[1])

C6_HiddenLeavesTree ==
    (HidOne /\ NoVisibleTipAbove(last.args[1]) /\ NoHeadAtOrAbove(last.args[1]))
        => GoneFromTree(last.args[1])

C6_Witness ==
    /\ HidOne
    /\ NoVisibleTipAbove(last.args[1])
    /\ NoHeadAtOrAbove(last.args[1])
    /\ Cardinality(SubtreeOf(last.tree, last.args[1])) >= 2

(***************************************************************************)
(* C3.  Trunk exclusion: in every tree build_tree returns, no node of      *)
(* commit_nodes is an ancestor of or equal to a trunk reference, and every *)
(* node of trunk_nodes is an ancestor of or equal to one.                  *)
(***************************************************************************)
UnderTrunk(n) == \E i \in DOMAIN trunk_refs : n \in Ancestors(trunk_refs[i])

C3_TrunkExclusion ==
    (last.cmd = "tree" /\ last.ok) =>
        /\ \A n \in last.tree.commit_nodes : ~UnderTrunk(n)
        /\ \A n \in Range(last.tree.trunk_nodes) : UnderTrunk(n)

\* a trunk node made while linking, under a stack of two commits
C3_Witness ==
    /\ last.cmd = "tree"
    /\ last.ok
    /\ Range(last.tree.trunk_nodes) \ TrunkShas # {}
    /\ Cardinality(last.tree.commit_nodes) >= 2

(***************************************************************************)
(* C7.  The tip set handed to the range query.  Original: it never holds   *)
(* a SHA that is on the hide-list or that an amend or heady-move entry     *)
(* superseded, whatever the reflog order and the branch heads.  Amended:   *)
(* every tip is a local branch head, or the new SHA of an entry inside the *)
(* recency window that is not on the hide-list and that no amend or move   *)
(* entry at or after that entry names as its old SHA.                      *)
(***************************************************************************)
Supersedes(j, sha) ==
    /\ reflog[j].msg \in {MsgAmend, MsgMove}
    /\ reflog[j].old = sha

SupersededInWindow(sha) == \E j \in DOMAIN reflog : j > stale /\ Supersedes(j, sha)

ReflogTip(sha) ==
    \E i \in DOMAIN reflog :
        /\ i > stale
        /\ reflog[i].new = sha
        /\ sha \notin hide_list
        /\ ~\E j \in DOMAIN reflog : j >= i /\ Supersedes(j, sha)

C7_Original ==
    last.cmd = "tree" =>
        \A sha \in last.tree.tip_shas : sha \notin hide_list /\ ~SupersededInWindow(sha)

C7_TipsAreHeadsOrLive ==
    last.cmd = "tree" =>
        \A sha \in last.tree.tip_shas : sha \in heads \/ ReflogTip(sha)

\* a hidden SHA and an amended SHA were both seen in the window and left out
C7_Witness ==
    /\ last.cmd = "tree"
    /\ \E i \in DOMAIN reflog :
           /\ i > stale
           /\ reflog[i].new \in hide_list
           /\ reflog[i].new \notin last.tree.tip_shas
    /\ \E i \in DOMAIN reflog :
           /\ i > stale
           /\ SupersededInWindow(reflog[i].new)
           /\ reflog[i].new \notin last.tree.tip_shas
    /\ last.tree.tip_shas # {}

(***************************************************************************)
(* C8.  Merge detection: for every commit outside trunk that carries an    *)
(* upstream trailer, build_tree returns a tree in which the node's         *)
(* merged_upstream_shas is the set of trunk-history commits that carry the *)
(* same upstream name.                                                     *)
(***************************************************************************)
TrunkCarriers(c) ==
    { x \in Reach(TrunkShas) : get_upstream_names(x) \cap get_upstream_names(c) # {} }

C8_MergeDetection ==
    last.cmd = "tree" =>
        \A c \in BranchCommitShas :
            get_upstream_names(c) # {} =>
                /\ last.ok
                /\ last.tree.merged_upstream_shas[c] = TrunkCarriers(c)

(***************************************************************************)
(* C9.  collect_subtree_shas(node, dest).  Original: the result is dest    *)
(* together with the subtree of node, for every dest.  Amended: that holds *)
(* when dest holds, with each of its members, the member's descendants (as *)
(* it does when earlier calls filled it, and when it is empty); for any    *)
(* dest the result lies between dest and that union.                       *)
(***************************************************************************)
Collected == last.cmd = "collect"

CollectUnion == last.args[2] \cup SubtreeOf(last.tree, last.args[1])

ClosedDest == \A d \in last.args[2] : SubtreeOf(last.tree, d) \subseteq last.args[2]

Offending(rev) == UnderTrunk(rev) \/ rev \in Ancestors(HEAD)

C11_HideSafety ==
    last.cmd = "hide" =>
        /\ last.ok =>
               \A sha \in hide_list \ last.pre.hide_list : sha # HEAD /\ ~UnderTrunk(sha)
        /\ (\E i \in DOMAIN last.args : Offending(last.args[i])) =>
               (~last.ok /\ hide_list = last.pre.hide_list)

\* a rev that hide would accept, in the tree, listed before an ancestor of HEAD
C11_Witness ==
    /\ last.cmd = "hide"
    /\ Len(last.args) = 2
    /\ ~Offending(last.args[1])
    /\ last.args[1] \in BranchCommitShas
    /\ last.args[1] \notin hide_list
    /\ ~UnderTrunk(last.args[2])
    /\ last.args[2] \in Ancestors(HEAD)
    /\ ~last.ok

(***************************************************************************)
(* C12.  Dirty-tree guard: a move, fixup, upstream attach or goto that     *)
(* starts on a dirty working tree changes neither HEAD, the reflog, the    *)
(* hide-list nor the commits, and it raises unless it had nothing to check *)
(* out (a fixup that finds no child to re-apply).                          *)
(***************************************************************************)
CheckoutCmd == last.cmd \in {"move", "fixup", "upstream", "goto"}

C12_DirtyGuard ==
    (CheckoutCmd /\ last.pre.dirty) =>
        /\ Unchanged
        /\ last.ok => (last.cmd = "fixup" /\ last.args = <<>>)

\* a fixup with a child to re-apply, stopped by the guard
C12_Witness ==
    /\ last.cmd = "fixup"
    /\ last.args # <<>>
    /\ last.pre.dirty
    /\ last.err = "dirty"

(***************************************************************************)
(* C13.  build_tree is deterministic: a second run on the same reflog,     *)
(* hide-list, branches and trunk references returns the tree the first     *)
(* run returned, with every children list in the same order.               *)
(***************************************************************************)
C13_Deterministic == last.cmd = "tree" => \A t \in Trees : t = last.tree

(***************************************************************************)
(* C14.  No rollback: when a cherry-pick is refused in the middle of a     *)
(* restack the command aborts there.  The reflog is the old one with the   *)
(* entries of the steps done, every commit made and every 'heady move'     *)
(* entry written is still there, HEAD is where the refused pick found it   *)
(* (the destination or a rewritten commit), and the nodes not reached have *)
(* no rewritten commit.                                                    *)
(***************************************************************************)
AbortedMove == last.cmd = "move" /\ last.err = "cherry-pick"

C14_NoRollback ==
    AbortedMove =>
        /\ ~last.ok
        /\ Len(reflog) >= Len(last.pre.reflog) + 2
        /\ SubSeq(reflog, 1, Len(last.pre.reflog)) = last.pre.reflog
        /\ Len(commits) = last.pre.ncommits + Len(last.moves)
        /\ \A i \in DOMAIN last.moves :
               /\ last.moves[i][2] \in (last.pre.ncommits + 1)..Len(commits)
               /\ \E j \in NewEntries :
                      reflog[j] = Entry(last.moves[i][1], last.moves[i][2], MsgMove)
        /\ HEAD \in {last.args[2]} \cup { last.moves[i][2] : i \in DOMAIN last.moves }
        /\ MovedOlds \subseteq SubtreeOf(last.tree, last.args[1])
        /\ MovedOlds # SubtreeOf(last.tree, last.args[1])

\* the source and one child were moved, a later pick was refused, and HEAD
\* is not where the command found it
C14_Witness ==
    /\ AbortedMove
    /\ Len(last.moves) >= 2
    /\ HEAD # last.pre.HEAD
    /\ HEAD # last.args[2]

(***************************************************************************)
(* C15.  A move, a fixup and an upstream attach leave the hide-list as it  *)
(* was, whether they complete or abort.                                    *)
(***************************************************************************)
C15_HideListFrame ==
    last.cmd \in {"move", "fixup", "upstream"} => hide_list = last.pre.hide_list

\* a move that rewrote a commit and then aborted, with a hide-list in place
C15_Witness ==
    /\ last.cmd = "move"
    /\ last.err = "cherry-pick"
    /\ Len(last.moves) >= 1
    /\ hide_list # {}

(***************************************************************************)
(* C16.  In a tree build_tree returns, a node is hidden exactly when its   *)
(* SHA is on the hide-list or is the old SHA of an amend or heady-move     *)
(* entry the walk read (every entry down to the first one older than the   *)
(* recency window), whether the walk met the SHA before that entry or not. *)
(***************************************************************************)
ReadByWalk(i) == i \in DOMAIN reflog /\ i >= stale

SupersededInWalk(sha) == \E i \in DOMAIN reflog : ReadByWalk(i) /\ Supersedes(i, sha)

C16_HiddenFlag ==
    (last.cmd = "tree" /\ last.ok) =>
        \A n \in last.tree.commit_nodes \cup Range(last.tree.trunk_nodes) :
            n \in last.tree.hidden <=> (n \in hide_list \/ SupersededInWalk(n))

\* a SHA the walk took as a tip from a newer entry and found superseded later
C16_Witness ==
    /\ last.cmd = "tree"
    /\ last.ok
    /\ \E n \in last.tree.commit_nodes :
           /\ n \in last.tree.tip_shas
           /\ n \notin heads
           /\ n \notin hide_list
           /\ n \in last.tree.hidden
           /\ \E i \in DOMAIN reflog : reflog[i].msg = MsgMove /\ reflog[i].old = n
    /\ last.tree.commit_nodes \ last.tree.hidden # {}

(***************************************************************************)
(* C17.  Forest shape: in a tree build_tree returns, every node of         *)
(* commit_nodes is in the children lists once in all, in the list of its   *)
(* first parent; only nodes of the tree have children and no trunk node is *)
(* a child; every node of commit_nodes is reached from a trunk node by     *)
(* following children.                                                     *)
(***************************************************************************)
Occurrences(t, c) ==
    Cardinality({ pos \in Shas \X (1..Cardinality(Shas)) :
                     /\ pos[2] \in DOMAIN t.children[pos[1]]
                     /\ t.children[pos[1]][pos[2]] = c })

RECURSIVE Below(_, _)
Below(t, n) == {n} \cup UNION { Below(t, t.children[n][i]) : i \in DOMAIN t.children[n] }

C17_ForestShape ==
    (last.cmd = "tree" /\ last.ok) =>
        LET t == last.tree
            trunk == Range(t.trunk_nodes)
        IN /\ \A c \in t.commit_nodes :
                  /\ Occurrences(t, c) = 1
                  /\ c \in Range(t.children[commits[c].parents[1]])
                  /\ commits[c].parents[1] \in t.commit_nodes \cup trunk
                  /\ c \in UNION { Below(t, r) : r \in trunk }
           /\ \A n \in Shas :
                  /\ Range(t.children[n]) \subseteq t.commit_nodes
                  /\ Range(t.children[n]) \cap trunk = {}
                  /\ t.children[n] # <<>> => n \in t.commit_nodes \cup trunk

\* a fork below a node of the stack, which hangs on a trunk node
C17_Witness ==
    /\ last.cmd = "tree"
    /\ last.ok
    /\ \E n \in last.tree.commit_nodes :
           /\ Len(last.tree.children[n]) >= 2
           /\ commits[n].parents[1] \in Range(last.tree.trunk_nodes)

(***************************************************************************)
(* C18.  In a tree build_tree returns, trunk_nodes has one node for every  *)
(* SHA among the trunk references and the first parents outside the branch *)
(* commit set, and no other; it shares no SHA with commit_nodes; and it is *)
(* ordered by commit time from newest to oldest.                           *)
(***************************************************************************)
OutsideParents(t) ==
    { commits[c].parents[1] : c \in { x \in t.commit_nodes : commits[x].parents[1] \notin t.commit_nodes } }

C18_TrunkNodes ==
    (last.cmd = "tree" /\ last.ok) =>
        LET t == last.tree
        IN /\ Range(t.trunk_nodes) = TrunkShas \cup OutsideParents(t)
           /\ Cardinality(Range(t.trunk_nodes)) = Len(t.trunk_nodes)
           /\ Range(t.trunk_nodes) \cap t.commit_nodes = {}
           /\ \A i \in DOMAIN t.trunk_nodes : \A j \in DOMAIN t.trunk_nodes :
                  i < j => commits[t.trunk_nodes[i]].time >= commits[t.trunk_nodes[j]].time
           /\ \A n \in Range(t.trunk_nodes) :
                  commits[t.trunk_nodes[Len(t.trunk_nodes)]].time <= commits[n].time

\* two trunk references on one commit, and an older trunk node made while linking
C18_Witness ==
    /\ last.cmd = "tree"
    /\ last.ok
    /\ Len(trunk_refs) = 2
    /\ Cardinality(TrunkShas) = 1
    /\ Len(last.tree.trunk_nodes) = 2
    /\ last.tree.trunk_nodes[1] \in TrunkShas

(***************************************************************************)
(* C19.  fixup_commit with HEAD = H.  The amend chain of H is the amend    *)
(* source of H, the amend source of that, and so on.  After a fixup that   *)
(* completes, HEAD is H; every child, not hidden, of a chain commit that   *)
(* is a node of the tree has one rewritten commit, whose parent is H; the  *)
(* nodes below such a child are rewritten below it, parent under parent;   *)
(* nothing else is moved.  With no amend history, or no such child, the    *)
(* command changes nothing.                                                *)
(***************************************************************************)
RECURSIVE ChainOf(_, _)
ChainOf(t, sha) ==
    IF sha \notin DOMAIN t.amend_source_map THEN {}
    ELSE {t.amend_source_map[sha]} \cup ChainOf(t, t.amend_source_map[sha])

ChainKids ==
    { c \in last.tree.commit_nodes :
        /\ c \notin last.tree.hidden
        /\ \E src \in ChainOf(last.tree, last.pre.HEAD) \cap last.tree.commit_nodes :
               c \in Range(last.tree.children[src]) }

ChainSubtrees == UNION { SubtreeOf(last.tree, c) : c \in ChainKids }

C19_Fixup ==
    last.cmd = "fixup" =>
        /\ ChainKids = {} => Unchanged
        /\ last.ok =>
               /\ HEAD = last.pre.HEAD
               /\ MovedOlds = ChainSubtrees
               /\ \A n \in ChainSubtrees : Cardinality(NewOf(n)) = 1
               /\ \A c \in ChainKids : \A nc \in NewOf(c) :
                      commits[nc].parents = <<last.pre.HEAD>>
               /\ \A n \in ChainSubtrees \ ChainKids : \A nn \in NewOf(n) :
                      \E np \in NewOf(commits[n].parents[1]) : commits[nn].parents = <<np>>

\* two children of the commit H was amended from, put side by side on H
C19_Witness ==
    /\ last.cmd = "fixup"
    /\ last.ok
    /\ Cardinality(ChainKids) >= 2

(***************************************************************************)
(* C20.  After add_upstream(ref, rev) succeeds: HEAD is the amended        *)
(* commit, which has the parents rev had; every child rev had in the tree  *)
(* snapshot has a rewritten commit whose parent is the amended commit; and *)
(* the next build_tree returns a tree in which rev is superseded by amend. *)
(***************************************************************************)
Attached == last.cmd = "upstream" /\ last.ok

AmendedCommits ==
    { reflog[i].new : i \in { j \in NewEntries : /\ reflog[j].msg = MsgAmend
                                                  /\ reflog[j].old = last.args[2] } }

C20_Restacked ==
    Attached =>
        /\ Cardinality(AmendedCommits) = 1
        /\ HEAD \in AmendedCommits
        /\ commits[HEAD].parents = commits[last.args[2]].parents
        /\ \A c \in SnapshotKids(last.args[2]) :
               /\ NewOf(c) # {}
               /\ \A nc \in NewOf(c) : commits[nc].parents = <<HEAD>>

C20_SupersededNext ==
    Attached =>
        \A t \in Trees :
            /\ t.ok
            /\ HEAD \in DOMAIN t.amend_source_map
            /\ t.amend_source_map[HEAD] = last.args[2]
            /\ last.args[2] \in t.commit_nodes => last.args[2] \in t.hidden

C20_AddUpstream == C20_Restacked /\ C20_SupersededNext

(***************************************************************************)
(* C21.  move_commits and add_upstream reject a hidden target: when the    *)
(* target is on the hide-list, or is the old SHA of an amend or heady-move *)
(* entry of the reflog, the command raises the not-in-tree error and       *)
(* changes nothing, also when the target still has a node in commit_nodes. *)
(***************************************************************************)
Target == IF last.cmd = "move" THEN last.args[1] ELSE last.args[2]

HiddenBefore(sha) ==
    \/ sha \in last.pre.hide_list
    \/ \E i \in DOMAIN last.pre.reflog :
           /\ last.pre.reflog[i].msg \in {MsgAmend, MsgMove}
           /\ last.pre.reflog[i].old = sha

C21_RejectHidden ==
    (last.cmd \in {"move", "upstream"} /\ ~UnderTrunk(Target) /\ HiddenBefore(Target)) =>
        (~last.ok /\ Unchanged)

(***************************************************************************)
(* C22: collect_merged_upstreams visits every trunk commit after the first *)
(* parent of the oldest trunk commit, up to each trunk tip, at most once   *)
(* across all trunk references, also when the references share history:    *)
(* for every upstream name the returned list holds each trunk commit of    *)
(* that range that carries the name exactly once, and no other commit.     *)
(***************************************************************************)
Count(list, c) == Cardinality({ i \in DOMAIN list : list[i] = c })

ScanRange ==
    { c \in Shas : /\ \E i \in DOMAIN trunk_refs : is_ancestor(c, trunk_refs[i])
                   /\ ~is_ancestor(c, commits[last.args[1]].parents[1]) }

CarriedNames == UNION { get_upstream_names(c) : c \in Shas }

MergedList(U) == IF U \in DOMAIN last.out THEN last.out[U] ELSE <<>>

C22_MergeScanOnce ==
    (last.cmd = "merged" /\ last.ok) =>
        /\ DOMAIN last.out \subseteq CarriedNames
        /\ \A U \in CarriedNames : \A c \in Shas :
               Count(MergedList(U), c) =
                   IF c \in ScanRange /\ U \in get_upstream_names(c) THEN 1 ELSE 0

\* two trunk references share a trailer-carrying commit of the range, and
\* another carrier of the same name lies outside the range
C22_Witness ==
    /\ last.cmd = "merged" /\ last.ok
    /\ Len(trunk_refs) = 2 /\ trunk_refs[1] # trunk_refs[2]
    /\ \E U \in CarriedNames : \E c, d \in Shas :
           /\ U \in get_upstream_names(c) /\ U \in get_upstream_names(d)
           /\ c \in ScanRange /\ d \notin ScanRange
           /\ c \notin TrunkShas
           /\ \A i \in DOMAIN trunk_refs : is_ancestor(c, trunk_refs[i])
           /\ Count(MergedList(U), c) = 1

(***************************************************************************)
(* C23: goto_commit("upstream", U) checks out c exactly when c is the only *)
(* visible stack commit carrying U; with no such commit or more than one   *)
(* it raises and leaves HEAD where it was.  (A dirty working tree is the   *)
(* one other refusal, and is left out.)                                    *)
(***************************************************************************)
GotoUpstream ==
    /\ last.cmd = "goto"
    /\ last.args[1] = "upstream"
    /\ last.args[2] # NoUpstream
    /\ ~last.pre.dirty

\* the visible stack commits carrying U in the state the command started
\* from: a command that raised has left that state as it was
VisibleCarriers(U) ==
    { c \in BranchCommitShas : U \in get_upstream_names(c) /\ ~IsHiddenSha(ReflogScan, c) }

C23_GotoUpstream ==
    GotoUpstream =>
        \/ /\ last.ok
           /\ HEAD \in BranchCommitShas
           /\ last.args[2] \in get_upstream_names(HEAD)
        \/ /\ ~last.ok
           /\ Unchanged
           /\ Cardinality(VisibleCarriers(last.args[2])) # 1

(***************************************************************************)
(* C24: the push plan holds one entry sha:refs/heads/<branch> for the      *)
(* pushed node and each of its descendants per upstream of the given       *)
(* remote, the node's own entries first; computing it changes nothing;     *)
(* and push_commits raises before any push when the revision has no node   *)
(* in the tree or the remote is not configured.  Stated for the pushed     *)
(* node itself: a push of a visible stack commit to a configured remote    *)
(* completes, and when the commit carries an upstream of that remote the   *)
(* plan starts with the commit's entry.                                    *)
(***************************************************************************)
PushTarget == last.args[2]

BranchOf(ref) ==
    LET i == CHOOSE k \in SlashAt(ref) : \A j \in SlashAt(ref) : k <= j
    IN SubSeq(ref, i + 1, Len(ref))

OwnEntries ==
    { [sha |-> PushTarget, branch |-> BranchOf(u)] :
        u \in { n \in get_upstream_names(PushTarget) :
                    SlashAt(n) # {} /\ UpstreamRemote(n) = last.args[1] } }

C24_PushPlan ==
    last.cmd = "push" =>
        /\ Unchanged
        /\ (PushTarget \notin BranchCommitShas \/ last.args[1] \notin Remotes) =>
               (~last.ok /\ ~last.out.pushed)
        /\ (PushTarget \in BranchCommitShas /\ last.args[1] \in Remotes) =>
               /\ last.ok
               /\ last.out.pushed
               /\ Len(last.out.order) >= Cardinality(OwnEntries)
               /\ \A i \in 1..Cardinality(OwnEntries) : last.out.order[i] \in OwnEntries

(***************************************************************************)
(* C25: build_tree completes when a commit has no parent: a root commit in *)
(* the branch commit set ends the linkage, a trunk reference on a root     *)
(* commit does not make the merge scan fail, and with no tips the result   *)
(* is a tree with no commit nodes.  Stated as: no build_tree call ends in  *)
(* the IndexError of reading the first parent of a commit that has none.   *)
(***************************************************************************)
C25_RootsComplete ==
    last.cmd = "tree" => last.err # "IndexError"

(***************************************************************************)
(* C26: a move_commits(S, D) in which no cherry-pick fails ends after      *)
(* exactly one cherry-pick per node of S's subtree in the snapshot, hidden *)
(* nodes included, also when D lies inside that subtree; the commits the   *)
(* move creates are never re-applied themselves.                           *)
(***************************************************************************)
CompletedMove == last.cmd = "move" /\ last.ok

C26_OnePickPerNode ==
    CompletedMove =>
        /\ MovedOlds = SubtreeOf(last.tree, last.args[1])
        /\ Len(last.moves) = Cardinality(SubtreeOf(last.tree, last.args[1]))
        /\ Len(commits) = last.pre.ncommits + Len(last.moves)
        /\ \A i \in DOMAIN last.moves :
               /\ last.moves[i][1] <= last.pre.ncommits
               /\ last.moves[i][2] = last.pre.ncommits + i

\* a hidden source with a child is moved onto that child
C26_Witness ==
    /\ CompletedMove
    /\ last.args[1] \in last.tree.hidden
    /\ last.args[2] \in SubtreeOf(last.tree, last.args[1]) \ {last.args[1]}
    /\ Len(last.moves) >= 2

(***************************************************************************)
(* C27: the walk of fixup_commit along amend_source_map ends for every map *)
(* build_tree can derive from a reflog, also when an amend entry has the   *)
(* same old and new SHA and when the entries form a cycle: no fixup is a   *)
(* call that never returns.                                                *)
(***************************************************************************)
C27_FixupTerminates ==
    last.cmd = "fixup" => last.err # "never returns"

====
